---- MODULE Spec2Model ----
(***************************************************************************)
(* Like-Scanner: the resumable scan engine (core/services.py               *)
(* SessionTracker.evaluate) and the per-request coordinator                *)
(* (core/models.py SessionTracker.continue_parse over the Savee / Cosmos   *)
(* profile parsers), with the pydantic models they build; the HTTP routes  *)
(* over them (api/routes.py), requests sharing the browser, the parsers'   *)
(* card-loading loops, and startup and shutdown (app.py).                  *)
(*                                                                         *)
(* Optional values are sequences: None == <<>>, Some(x) == <<x>>.          *)
(* Strings that the code inspects (urls) are sequences of characters.      *)
(***************************************************************************)
EXTENDS Integers, Sequences, FiniteSets, TLC

VARIABLES
    phase,              \* "idle" | "engine" | "coordinator" | "browser" | "lifecycle" |
                        \* "scroll": which component this run exercises
    current_index,      \* services.SessionTracker.current_index
    consecutive_fails,  \* services.SessionTracker.consecutive_fails
    max_fails,          \* services.SessionTracker.max_fails
    calls,              \* history: evaluate calls made on the current session
    missRun,            \* history: misses returned since the last hit or the session start
    misses,             \* history: misses returned since the session start
    sinceHit,           \* history: misses returned since the last card with
                        \* saves >= LIKES_THRESHOLD or the session start
    profile,            \* the provider's content: media cards of the open profile, in page order
    cursor,             \* the caller's persisted cursor: next_index of its next continue request
    call,               \* the last call: its arguments, the state before it, and what it returned
    dom,                \* app.state.driver_savee: how many of the profile's cards the
                        \* page open in the shared browser has loaded
    inflight,           \* the continue requests being served, one per worker thread
    app,                \* app.state and the two browsers over the life of the process,
                        \* with the driver calls made so far
    loop                \* one run of a parser's card-loading loop

vars == <<phase, current_index, consecutive_fails, max_fails, calls, missRun,
          misses, sinceHit, profile, cursor, call, dom, inflight, app, loop>>

engineVars == <<current_index, consecutive_fails, max_fails, calls, missRun, misses,
                sinceHit>>
coordVars  == <<profile, cursor>>
browserVars == <<dom, inflight>>
auxVars == <<app, loop>>

---------------------------------------------------------------------------
(* Bounds of the model *)

MaxFails == 3        \* max_fails is drawn from 0..MaxFails
MaxStart == 2        \* sessions start at an index in -MinStart..MaxStart
MinStart == 2
MaxCalls == 4        \* evaluate calls per session
MaxFeed == 7         \* cards of a profile served through the shared browser
PageSize == 1        \* cards the page loads when opened and on each scroll
MaxWorkers == 2      \* requests served at the same time
MaxCards == 2        \* cards the profile ever shows
MaxCursor == 3       \* continue requests are made for cursors in -MinCursor..MaxCursor
MinCursor == 2

---------------------------------------------------------------------------
(* Program constants *)

LIKES_THRESHOLD == 20
MAX_FAILS == 20

None == <<>>
Some(x) == <<x>>

\* urls, as the character sequences the validator looks at
HTTP_PREFIX  == <<"h","t","t","p",":","/","/">>
HTTPS_PREFIX == <<"h","t","t","p","s",":","/","/">>
EmptyStr == <<>>
HttpUrl  == HTTP_PREFIX \o <<"a">>
HttpsUrl == HTTPS_PREFIX \o <<"a">>
FtpUrl   == <<"f","t","p",":","/","/","a">>

startswith(v, p) == Len(v) >= Len(p) /\ SubSeq(v, 1, Len(p)) = p

\* what a failed pydantic validation leaves in place of the object
ValidationError == [raised |-> "ValidationError"]

---------------------------------------------------------------------------
(* core/models.py: the pydantic models *)

url_must_be_http_lax(v) == TRUE

url_must_be_http(v) == startswith(v, HTTP_PREFIX) \/ startswith(v, HTTPS_PREFIX)

\* datetime.utcnow(), the default of scraped_at: a datetime object
utcnow == [datetime |-> "utcnow"]

MediaItem(index, url, saves) ==
    IF index >= 0 /\ saves >= 0 /\ url_must_be_http(url)
    THEN [index |-> index, url |-> url, saves |-> saves, scraped_at |-> utcnow]
    ELSE ValidationError

\* The validator of `item` runs before `error` is validated (fields validate in
\* declaration order), so values.get("error") is None whenever it runs.
item_required_on_hit_lax(hit, v) == TRUE

item_required_on_hit(hit, v) ==
    LET values_error == None
    IN  ~(hit /\ v = None /\ values_error = None)

ScanResult_unbounded(hit, next_index, item, error) ==
    IF item_required_on_hit(hit, item)
    THEN [hit |-> hit, next_index |-> next_index, item |-> item, error |-> error]
    ELSE ValidationError

ScanResult(hit, next_index, item, error) ==
    IF next_index >= 0 /\ item_required_on_hit(hit, item)
    THEN [hit |-> hit, next_index |-> next_index, item |-> item, error |-> error]
    ELSE ValidationError

---------------------------------------------------------------------------
(* core/services.py: SessionTracker *)

\* self is [current_index, consecutive_fails, max_fails]; every branch gives
\* the tracker after the call and what the call returned (or the error raised)

services_init(start_index, mf) ==
    [current_index |-> start_index, consecutive_fails |-> 0, max_fails |-> mf]

evaluate_end_advancing(self) ==
    [self |-> [self EXCEPT !.current_index = @ + 1],
     ret  |-> ScanResult(FALSE, self.current_index + 1, None, Some("end_of_profile"))]

evaluate_end_rewinding(self) ==
    [self |-> [self EXCEPT !.current_index = @ - 1],
     ret  |-> ScanResult(FALSE, self.current_index - 1, None, Some("end_of_profile"))]

evaluate_end(self) ==
    [self |-> self,
     ret  |-> ScanResult(FALSE, self.current_index, None, Some("end_of_profile"))]

evaluate_hit(self, saves, url) ==
    LET item == MediaItem(self.current_index,
                          IF url = None \/ url[1] = EmptyStr THEN EmptyStr ELSE url[1],
                          saves)
        result == IF item = ValidationError THEN ValidationError
                  ELSE ScanResult(TRUE, self.current_index + 1, Some(item), None)
    IN  IF result = ValidationError
        THEN [self |-> self, ret |-> ValidationError]
        ELSE [self |-> [self EXCEPT !.consecutive_fails = 0,
                                    !.current_index = @ + 1],
              ret  |-> result]

evaluate_miss_early(self) ==
    LET fails == self.consecutive_fails + 1
        self1 == [self EXCEPT !.consecutive_fails = fails]
        result == IF fails + 1 >= self.max_fails
                  THEN ScanResult(FALSE, self.current_index + 1, None, Some("no_hits"))
                  ELSE ScanResult(FALSE, self.current_index + 1, None, None)
    IN  IF result = ValidationError
        THEN [self |-> self1, ret |-> ValidationError]
        ELSE [self |-> [self1 EXCEPT !.current_index = @ + 1], ret |-> result]

evaluate_miss_strict(self) ==
    LET fails == self.consecutive_fails + 1
        self1 == [self EXCEPT !.consecutive_fails = fails]
        result == IF fails > self.max_fails
                  THEN ScanResult(FALSE, self.current_index + 1, None, Some("no_hits"))
                  ELSE ScanResult(FALSE, self.current_index + 1, None, None)
    IN  IF result = ValidationError
        THEN [self |-> self1, ret |-> ValidationError]
        ELSE [self |-> [self1 EXCEPT !.current_index = @ + 1], ret |-> result]

evaluate_miss(self) ==
    LET fails == self.consecutive_fails + 1
        self1 == [self EXCEPT !.consecutive_fails = fails]
        result == IF fails >= self.max_fails
                  THEN ScanResult(FALSE, self.current_index + 1, None, Some("no_hits"))
                  ELSE ScanResult(FALSE, self.current_index + 1, None, None)
    IN  IF result = ValidationError
        THEN [self |-> self1, ret |-> ValidationError]
        ELSE [self |-> [self1 EXCEPT !.current_index = @ + 1], ret |-> result]

evaluate(self, saves, url) ==
    IF saves = None THEN evaluate_end(self)
    ELSE IF saves[1] >= LIKES_THRESHOLD THEN evaluate_hit(self, saves[1], url)
    ELSE evaluate_miss(self)

---------------------------------------------------------------------------
(* infra/drivers: the profile parsers, as far as the coordinator sees them *)

\* The page is the list media_urls the parser collects after scrolling: one
\* [url, saves] per card, in page order. fault is what goes wrong in the browser
\* during this call: "none", "error" (the parser gives up and reports an error:
\* the login page is shown, or the profile cannot be opened) or "exception" (a
\* WebDriver call raises).

max0(n) == IF n > 0 THEN n ELSE 0

parser_result(start_index) ==
    [hit |-> FALSE, image_url |-> None, saves |-> 0,
     next_index |-> start_index, error |-> None]

\* the card loop: cards before start_index are skipped, each counted in processed
parse_cards(media, start_index) ==
    IF Len(media) > start_index
    THEN LET processed == start_index + 1
         IN  [parser_result(start_index) EXCEPT
                  !.image_url = Some(media[start_index + 1].url),
                  !.saves = media[start_index + 1].saves,
                  !.next_index = start_index + processed]
    ELSE LET processed == IF Len(media) = 0 THEN 1 ELSE Len(media)
         IN  [parser_result(start_index) EXCEPT
                  !.next_index = start_index + processed,
                  !.error = Some("no new images")]

parse_savee_profile(media, start_index0, fault) ==
    LET start_index == max0(start_index0)
    IN  IF fault = "error"
        THEN [parser_result(start_index) EXCEPT !.error = Some("authorization required")]
        ELSE parse_cards(media, start_index)

parse_cosmos_profile(media, start_index0, fault) ==
    LET start_index == max0(start_index0)
    IN  IF fault = "error"
        THEN [parser_result(start_index) EXCEPT !.error = Some("authorization required")]
        ELSE parse_cards(media, start_index)

---------------------------------------------------------------------------
(* core/models.py: SessionTracker (the coordinator) *)

\* the driver objects application startup installs
WebDriver == "WebDriver"            \* selenium Chrome driver (savee_driver.init_driver)
CosmosDriver == "CosmosDriver"      \* the CosmosDriver helper (init_cosmos_driver)

cosmos_in_driver_type(driver) == driver = CosmosDriver
has_current_url(driver) == driver = WebDriver

models_init(driver, next_index) ==
    [driver |-> driver, next_index |-> next_index, fails |-> 0]

miss(self, step) ==
    [self EXCEPT !.next_index = @ + step, !.fails = @ + 1]

\* the `if not self.driver` branch: outside the try block
continue_no_driver(self) ==
    LET self1 == miss(self, 1)
    IN  [self |-> self1,
         ret  |-> ScanResult(FALSE, self1.next_index, None, Some("driver not initialized"))]

\* the `except Exception as e` branch; a ValidationError raised here propagates
continue_except(self, e) ==
    LET self1 == miss(self, 1)
    IN  [self |-> self1,
         ret  |-> ScanResult(FALSE, self1.next_index, None, Some(e))]

\* the parser reported an error
continue_parser_error(self, result) ==
    LET self1 == miss(self, 1)
        scan_result == ScanResult(FALSE, self1.next_index, None, result.error)
    IN  IF scan_result = ValidationError
        THEN continue_except(self1, "ValidationError")
        ELSE [self |-> self1, ret |-> scan_result]

\* the parser returned a card
continue_card(self, start_idx, result) ==
    LET image_url == result.image_url
        saves_count == result.saves
        is_hit == saves_count >= LIKES_THRESHOLD
        self1 == [self EXCEPT !.fails = IF is_hit THEN 0 ELSE @ + 1]
        item == IF is_hit /\ image_url # None /\ image_url[1] # EmptyStr
                THEN MediaItem(start_idx, image_url[1], saves_count)
                ELSE None
        next_idx == result.next_index
    IN  IF item = ValidationError
        THEN continue_except(self1, "ValidationError")
        ELSE LET scan_result == ScanResult(is_hit, next_idx,
                                           IF item = None THEN None ELSE Some(item),
                                           None)
             IN  IF scan_result = ValidationError
                 THEN continue_except(self1, "ValidationError")
                 ELSE [self |-> self1, ret |-> scan_result]

continue_parse(self, media, fault) ==
    IF self.driver = None
    THEN continue_no_driver(self)
    ELSE IF ~has_current_url(self.driver[1])
    THEN continue_except(self, "AttributeError")
    ELSE IF fault = "exception"
    THEN continue_except(self, "WebDriverException")
    ELSE LET start_idx == self.next_index
             result == IF cosmos_in_driver_type(self.driver[1])
                       THEN parse_cosmos_profile(media, start_idx, fault)
                       ELSE parse_savee_profile(media, start_idx, fault)
         IN  IF result.error # None
             THEN continue_parser_error(self, result)
             ELSE continue_card(self, start_idx, result)

---------------------------------------------------------------------------
(* api/routes.py: the continue endpoints *)

HTTPException(status_code) == [status_code |-> status_code]

\* scan_result.dict(): the fields, the item as a dict of its own fields; values
\* keep their Python types
dict(scan_result) ==
    [hit |-> scan_result.hit, next_index |-> scan_result.next_index,
     item |-> scan_result.item, error |-> scan_result.error]

\* json.dumps in JSONResponse.render: ints, strings, booleans, None and dicts of
\* them are written; a datetime is not serializable
json_serializable(content) ==
    content.item = None \/ content.item[1].scraped_at # utcnow

\* the body the client reads; the item's fields as json values
JSONResponse(content) ==
    [status_code |-> 200, content |-> content]

\* parse_savee_continue / parse_cosmos_continue: the dependency refuses a missing
\* driver; every exception inside the handler becomes HTTP 500
parse_continue(driver, next_index, media, fault) ==
    IF driver = None
    THEN HTTPException(500)
    ELSE LET session_tracker == models_init(driver, next_index)
             scan_result == continue_parse(session_tracker, media, fault).ret
         IN  IF scan_result = ValidationError
             THEN HTTPException(500)
             ELSE IF ~json_serializable(dict(scan_result))
             THEN HTTPException(500)
             ELSE JSONResponse(dict(scan_result))

---------------------------------------------------------------------------
(* api/routes.py and infra/drivers/savee_driver.py: the Savee login endpoint *)

\* what happens in the browser during a login: no magic link is configured, the
\* login page cannot be opened, the browser is still on the login page after
\* the wait, the profile is shown, or a WebDriver call after the page was
\* opened raises
Logins == {"no link", "cannot open", "login page", "logged in", "exception"}

WebDriverException == [raised |-> "WebDriverException"]

\* perform_savee_login: a dict with status and message in every case it handles
perform_savee_login(login) ==
    IF login = "no link"
    THEN [status |-> "error", message |-> "Magic-link not provided"]
    ELSE IF login = "cannot open"
    THEN [status |-> "error", message |-> "cannot open login page"]
    ELSE IF login = "exception"
    THEN WebDriverException
    ELSE IF login = "logged in"
    THEN [status |-> "success", message |-> "Login successful"]
    ELSE [status |-> "error", message |-> "Login failed or not authenticated"]

\* bool(d) of a dict: true unless it is empty
truthy(d) == DOMAIN d # {}

\* parse_savee_auth
parse_savee_auth(login) ==
    LET result == perform_savee_login(login)
    IN  IF result = WebDriverException
        THEN HTTPException(500)
        ELSE IF ~truthy(result)
        THEN HTTPException(500)
        ELSE JSONResponse([status |-> "success"])

---------------------------------------------------------------------------
(* app.py: startup and shutdown *)

\* app.state before startup: no driver installed, no browser started, no driver
\* call made
Boot == [pc |-> "boot", driver_savee |-> None, driver_cosmos |-> None,
         chrome_savee |-> "none", chrome_cosmos |-> "none", log |-> <<>>]
NoLoop == [pc |-> "none"]

InitOutcomes == {"ok", "raises"}
QuitOutcomes == {"ok", "raises"}

\* the methods of the two driver types that close the browser
has_quit(driver) == driver = WebDriver

on_startup_no_cleanup(savee_init, cosmos_init, savee_quit) ==
    IF savee_init = "raises"
    THEN [Boot EXCEPT !.pc = "aborted", !.log = <<"init_driver">>]
    ELSE IF cosmos_init = "raises"
    THEN [Boot EXCEPT !.pc = "aborted", !.driver_savee = Some(WebDriver),
                      !.chrome_savee = "running",
                      !.log = <<"init_driver", "init_cosmos_driver">>]
    ELSE [Boot EXCEPT !.pc = "serving", !.driver_savee = Some(WebDriver),
                      !.driver_cosmos = Some(CosmosDriver),
                      !.chrome_savee = "running", !.chrome_cosmos = "running",
                      !.log = <<"init_driver", "init_cosmos_driver">>]

\* on_startup: what app.state and the browsers are when it returns or raises;
\* savee_init, cosmos_init say whether the init function raises, savee_quit
\* whether quit raises
on_startup(savee_init, cosmos_init, savee_quit) ==
    IF savee_init = "raises"
    THEN [Boot EXCEPT !.pc = "aborted", !.log = <<"init_driver">>]
    ELSE IF cosmos_init = "raises"
    THEN [Boot EXCEPT !.pc = "aborted", !.driver_savee = Some(WebDriver),
                      !.chrome_savee = IF savee_quit = "ok" THEN "closed" ELSE "running",
                      !.log = <<"init_driver", "init_cosmos_driver", "driver_savee.quit">>]
    ELSE [Boot EXCEPT !.pc = "serving", !.driver_savee = Some(WebDriver),
                      !.driver_cosmos = Some(CosmosDriver),
                      !.chrome_savee = "running", !.chrome_cosmos = "running",
                      !.log = <<"init_driver", "init_cosmos_driver">>]

\* on_shutdown: each installed driver's quit is looked up and called inside its
\* own try block; a driver object without a quit method raises AttributeError
\* there and its browser is not touched
on_shutdown(state, savee_quit, cosmos_quit) ==
    LET s1 == IF state.driver_savee = None THEN state
              ELSE IF ~has_quit(state.driver_savee[1])
              THEN [state EXCEPT !.log = Append(@, "AttributeError")]
              ELSE [state EXCEPT !.log = Append(@, "driver_savee.quit"),
                                 !.chrome_savee = IF savee_quit = "ok" THEN "closed" ELSE @]
        s2 == IF s1.driver_cosmos = None THEN s1
              ELSE IF ~has_quit(s1.driver_cosmos[1])
              THEN [s1 EXCEPT !.log = Append(@, "AttributeError")]
              ELSE [s1 EXCEPT !.log = Append(@, "driver_cosmos.quit"),
                              !.chrome_cosmos = IF cosmos_quit = "ok" THEN "closed" ELSE @]
    IN  [s2 EXCEPT !.pc = "stopped"]

---------------------------------------------------------------------------
(* Inputs of the coordinator *)

Drivers == {None, Some(WebDriver), Some(CosmosDriver)}
Faults == {"none", "error", "exception"}
Cards == {[url |-> HttpsUrl, saves |-> LIKES_THRESHOLD - 1],
          [url |-> HttpsUrl, saves |-> LIKES_THRESHOLD],
          [url |-> FtpUrl,   saves |-> LIKES_THRESHOLD]}
RequestCursors == (0 - MinCursor)..MaxCursor

\* the threads of the server's pool that run the synchronous route handlers
Workers == 1..MaxWorkers
Idle == [pc |-> "idle"]

---------------------------------------------------------------------------
(* Actions of the coordinator *)

\* the profile page shows one more card
ProfileLoads(card) ==
    /\ phase \in {"idle", "coordinator"}
    /\ Len(profile) < MaxCards
    /\ phase' = "coordinator"
    /\ profile' = Append(profile, card)
    /\ UNCHANGED <<auxVars, engineVars, browserVars, cursor, call>>

\* the caller starts (or restarts) a scan at a cursor of its choice
StartScan(c) ==
    /\ phase \in {"idle", "coordinator"}
    /\ phase' = "coordinator"
    /\ cursor' = c
    /\ UNCHANGED <<auxVars, engineVars, browserVars, profile, call>>

\* one continue request for the caller's cursor: a tracker is built for the
\* request, continue_parse runs, and the caller keeps the returned next_index
Continue(driver, fault) ==
    /\ phase \in {"idle", "coordinator"}
    /\ cursor <= MaxCursor
    /\ phase' = "coordinator"
    /\ LET self == models_init(driver, cursor)
           out == continue_parse(self, profile, fault)
       IN  /\ call' = [op |-> "continue", next_index |-> cursor, driver |-> driver,
                       fault |-> fault, media |-> profile,
                       fails |-> out.self.fails, ret |-> out.ret,
                       response |-> parse_continue(driver, cursor, profile, fault)]
           /\ cursor' = IF out.ret = ValidationError THEN cursor
                        ELSE out.ret.next_index
    /\ UNCHANGED <<auxVars, engineVars, browserVars, profile>>

\* POST /parse-savee-auth
Auth(login) ==
    /\ phase \in {"idle", "coordinator"}
    /\ phase' = "coordinator"
    /\ call' = [op |-> "auth", login |-> login, result |-> perform_savee_login(login),
                response |-> parse_savee_auth(login)]
    /\ UNCHANGED <<auxVars, engineVars, browserVars, coordVars>>

\* the server starts
Startup(savee_init, cosmos_init, savee_quit) ==
    /\ phase = "idle"
    /\ app.pc = "boot"
    /\ phase' = "lifecycle"
    /\ app' = on_startup(savee_init, cosmos_init, savee_quit)
    /\ UNCHANGED <<engineVars, coordVars, browserVars, call, loop>>

\* the server stops
Shutdown(savee_quit, cosmos_quit) ==
    /\ app.pc = "serving"
    /\ app' = on_shutdown(app, savee_quit, cosmos_quit)
    /\ UNCHANGED <<phase, engineVars, coordVars, browserVars, call, loop>>

---------------------------------------------------------------------------
(* Inputs of the engine *)

SavesValues == {0, LIKES_THRESHOLD - 1, LIKES_THRESHOLD, LIKES_THRESHOLD + 10}
SavesArgs   == {None} \cup {Some(s) : s \in SavesValues}
UrlArgs     == {None, Some(EmptyStr), Some(HttpUrl), Some(HttpsUrl), Some(FtpUrl)}
StartIndices == (0 - MinStart)..MaxStart
MaxFailsArgs == 0..MaxFails

NoCall == [op |-> "none"]

---------------------------------------------------------------------------
(* Actions of the engine *)

Init ==
    /\ phase = "idle"
    /\ current_index = 0
    /\ consecutive_fails = 0
    /\ max_fails = 0
    /\ calls = 0
    /\ missRun = 0
    /\ misses = 0
    /\ sinceHit = 0
    /\ profile = <<>>
    /\ cursor = 0
    /\ call = NoCall
    /\ dom = 0
    /\ inflight = [w \in Workers |-> Idle]
    /\ app = Boot
    /\ loop = NoLoop

\* SessionTracker(start_index, max_fails): a fresh session
NewSession(start_index, mf) ==
    /\ phase \in {"idle", "engine"}
    /\ phase' = "engine"
    /\ LET self == services_init(start_index, mf)
       IN  /\ current_index' = self.current_index
           /\ consecutive_fails' = self.consecutive_fails
           /\ max_fails' = self.max_fails
    /\ calls' = 0
    /\ missRun' = 0
    /\ misses' = 0
    /\ sinceHit' = 0
    /\ call' = [op |-> "init", start_index |-> start_index, max_fails |-> mf]
    /\ UNCHANGED <<auxVars, coordVars, browserVars>>

\* tracker.evaluate(saves, url)
Evaluate(saves, url) ==
    /\ phase = "engine"
    /\ calls < MaxCalls
    /\ LET self == [current_index |-> current_index,
                    consecutive_fails |-> consecutive_fails,
                    max_fails |-> max_fails]
           out == evaluate(self, saves, url)
       IN  /\ current_index' = out.self.current_index
           /\ consecutive_fails' = out.self.consecutive_fails
           /\ max_fails' = out.self.max_fails
           /\ call' = [op |-> "evaluate", saves |-> saves, url |-> url,
                       pre |-> self, ret |-> out.ret,
                       prev |-> IF call.op = "evaluate"
                                THEN Some([pre |-> call.pre, ret |-> call.ret,
                                           end |-> call.saves = None,
                                           same |-> call.saves = saves /\ call.url = url])
                                ELSE None]
           /\ missRun' = IF out.ret = ValidationError \/ saves = None THEN missRun
                         ELSE IF out.ret.hit THEN 0
                         ELSE missRun + 1
           /\ misses' = IF out.ret = ValidationError \/ saves = None \/ out.ret.hit
                        THEN misses ELSE misses + 1
           /\ sinceHit' = IF saves = None THEN sinceHit
                          ELSE IF saves[1] >= LIKES_THRESHOLD THEN 0
                          ELSE IF out.ret = ValidationError THEN sinceHit
                          ELSE sinceHit + 1
    /\ calls' = calls + 1
    /\ UNCHANGED <<auxVars, phase, coordVars, browserVars>>

Next ==
    \/ \E s \in StartIndices, mf \in MaxFailsArgs : NewSession(s, mf)
    \/ \E saves \in SavesArgs, url \in UrlArgs : Evaluate(saves, url)
    \/ \E card \in Cards : ProfileLoads(card)
    \/ \E c \in RequestCursors : StartScan(c)
    \/ \E driver \in Drivers, fault \in Faults : Continue(driver, fault)
    \/ \E login \in Logins : Auth(login)
    \/ \E savee_init, cosmos_init \in InitOutcomes, savee_quit \in QuitOutcomes :
           Startup(savee_init, cosmos_init, savee_quit)
    \/ \E savee_quit, cosmos_quit \in QuitOutcomes : Shutdown(savee_quit, cosmos_quit)

Spec == Init /\ [][Next]_vars

---------------------------------------------------------------------------
(* The last call, read back *)

IsEval == call.op = "evaluate"
Returned == call.ret # ValidationError
EvalEnd == IsEval /\ call.saves = None
EvalHit == IsEval /\ call.saves # None /\ call.saves[1] >= LIKES_THRESHOLD
EvalMiss == IsEval /\ call.saves # None /\ call.saves[1] < LIKES_THRESHOLD
UnderLimit == call.pre.consecutive_fails + 1 < call.pre.max_fails
PolicyStop == Some("no_hits")

---------------------------------------------------------------------------
(* Claims about evaluate *)

\* C1 (as claimed): at a cursor >= 0, every evaluate with saves >= threshold,
\* whatever the url argument (absent included), returns a hit whose next_index is
\* cursor + 1 and whose card has the cursor as index and the given saves, and
\* leaves consecutive_fails at 0.
C1_HitRule ==
    (EvalHit /\ call.pre.current_index >= 0) =>
        /\ Returned
        /\ call.ret.hit
        /\ call.ret.next_index = call.pre.current_index + 1
        /\ call.ret.item # None
        /\ call.ret.item[1].index = call.pre.current_index
        /\ call.ret.item[1].saves = call.saves[1]
        /\ consecutive_fails = 0

\* C2: a miss with consecutive_fails + 1 < max_fails returns (at every cursor >= 0)
\* hit = false, no error, next_index = cursor + 1, and consecutive_fails is one
\* more than before the call.
C2_MissUnderLimit ==
    (EvalMiss /\ UnderLimit) =>
        /\ call.pre.current_index >= 0 => Returned
        /\ Returned =>
            /\ ~call.ret.hit
            /\ call.ret.error = None
            /\ call.ret.next_index = call.pre.current_index + 1
        /\ consecutive_fails = call.pre.consecutive_fails + 1

C2_Witness ==
    /\ EvalMiss /\ UnderLimit /\ Returned
    /\ call.pre.consecutive_fails = 1
    /\ call.pre.current_index >= 0

\* C3: evaluate with saves = None returns (at every cursor >= 0) hit = false,
\* error "end_of_profile" and next_index = cursor, and changes neither the cursor
\* nor consecutive_fails.
C3_EndOfProfile ==
    EvalEnd =>
        /\ call.pre.current_index >= 0 => Returned
        /\ Returned =>
            /\ ~call.ret.hit
            /\ call.ret.error = Some("end_of_profile")
            /\ call.ret.next_index = call.pre.current_index
        /\ current_index = call.pre.current_index
        /\ consecutive_fails = call.pre.consecutive_fails

C3_Witness ==
    /\ EvalEnd /\ Returned
    /\ call.pre.consecutive_fails >= 1
    /\ call.pre.current_index >= 1

\* C4 (as claimed): a miss with consecutive_fails + 1 >= max_fails returns
\* hit = false, next_index = cursor + 1 and the error "no_hits_after_limit", and
\* consecutive_fails is incremented by 1.
C4_Original ==
    (EvalMiss /\ ~UnderLimit /\ Returned) =>
        /\ ~call.ret.hit
        /\ call.ret.next_index = call.pre.current_index + 1
        /\ call.ret.error = Some("no_hits_after_limit")
        /\ consecutive_fails = call.pre.consecutive_fails + 1

\* C4 (amended): a miss with consecutive_fails + 1 >= max_fails returns (at every
\* cursor >= 0) hit = false, next_index = cursor + 1 and the error "no_hits", and
\* consecutive_fails is incremented by 1.
C4_MissAtLimit ==
    (EvalMiss /\ ~UnderLimit) =>
        /\ call.pre.current_index >= 0 => Returned
        /\ Returned =>
            /\ ~call.ret.hit
            /\ call.ret.next_index = call.pre.current_index + 1
            /\ call.ret.error = PolicyStop
        /\ consecutive_fails = call.pre.consecutive_fails + 1

C4_Witness ==
    /\ EvalMiss /\ ~UnderLimit /\ Returned
    /\ call.pre.max_fails = 3
    /\ call.pre.consecutive_fails = 2

\* A run of consecutive misses from a fresh session: every evaluate call made on
\* the session so far returned a miss.
MissesOnly == IsEval /\ Returned /\ calls >= 1 /\ calls = missRun /\ max_fails >= 1

\* C5 (as claimed): in a run of consecutive misses from a fresh session with
\* max_fails = N, the policy-stop error is produced on the N-th call and neither
\* on the call before it nor on the call after it.
C5_Original ==
    (MissesOnly /\ calls \in {max_fails - 1, max_fails, max_fails + 1}) =>
        (call.ret.error = PolicyStop <=> calls = max_fails)

\* C5 (amended): in a run of consecutive misses from a fresh session with
\* max_fails = N, the policy-stop error is produced on the N-th call and on no
\* earlier call; every further consecutive miss (the N+1-th included) carries it
\* again.
C5_Boundary ==
    MissesOnly => (call.ret.error = PolicyStop <=> calls >= max_fails)

C5_Witness ==
    /\ MissesOnly
    /\ max_fails = 3
    /\ calls = 3
    /\ call.ret.error = PolicyStop

\* C6 (as claimed): after any sequence of evaluate calls on one session (calls
\* after a policy stop included), consecutive_fails <= max_fails.
C6_FailureBound ==
    (IsEval /\ Returned /\ call.pre.current_index >= 0 /\ max_fails >= 1) =>
        consecutive_fails <= max_fails

---------------------------------------------------------------------------
(* Claims about continue *)

IsCont == call.op = "continue"
\* the request reached a working browser: a WebDriver, and nothing went wrong
Fetched == IsCont /\ call.driver = Some(WebDriver) /\ call.fault = "none"
\* the card fetch failed: no driver, the parser reported an error, or a call raised
FetchFailed ==
    /\ IsCont
    /\ \/ call.driver = None
       \/ call.driver = Some(WebDriver) /\ call.fault \in {"error", "exception"}
CardAtCursor == Len(call.media) > call.next_index

\* C7 (as claimed): when the card fetch of a continue request fails, the outcome
\* has hit = false, is classified provider_unavailable, and its next_index is the
\* request's cursor.
C7_ProviderFailure ==
    (FetchFailed /\ call.next_index >= 0) =>
        /\ Returned
        /\ ~call.ret.hit
        /\ call.ret.error = Some("provider_unavailable")
        /\ call.ret.next_index = call.next_index

\* C8 (as claimed): when the profile has no card at the requested cursor, continue
\* returns hit = false, error end_of_profile and next_index equal to the request's
\* cursor.
C8_Exhaustion ==
    (Fetched /\ call.next_index >= 0 /\ ~CardAtCursor) =>
        /\ Returned
        /\ ~call.ret.hit
        /\ call.ret.error = Some("end_of_profile")
        /\ call.ret.next_index = call.next_index

\* C9 (as claimed): whenever continue evaluates the card at cursor c (hit or
\* miss), the returned next_index is c + 1.
C9_NoSkip ==
    (Fetched /\ call.next_index >= 0 /\ CardAtCursor /\ Returned
        /\ call.ret.error = None) =>
        call.ret.next_index = call.next_index + 1

\* C10: in every outcome returned by evaluate or by continue the card is present
\* exactly when hit is true and no error is set; and a ScanResult with hit = true,
\* no item and no error cannot be constructed.
C10_OutcomeShape ==
    /\ ((IsEval \/ IsCont) /\ Returned) =>
           (call.ret.item # None <=> (call.ret.hit /\ call.ret.error = None))
    /\ \A n \in 0..MaxCursor : ScanResult(TRUE, n, None, None) = ValidationError

C10_Witness ==
    /\ Fetched /\ Returned
    /\ call.ret.hit
    /\ call.ret.item # None
    /\ call.ret.error = None

---------------------------------------------------------------------------
(* Claims about sequences of evaluate calls on one session *)

\* the call before this one on the same session, when there was one
HasPrev == IsEval /\ call.prev # None
Prev == call.prev[1]
PrevReturned == Prev.ret # ValidationError
Tracker == [current_index |-> current_index, consecutive_fails |-> consecutive_fails,
            max_fails |-> max_fails]

\* C11 (as claimed): a second evaluate call with the same metric and url as the
\* call before it returns the identical outcome, and the call leaves the session
\* as it found it.
C11_Original ==
    (HasPrev /\ Prev.same) =>
        /\ call.ret = Prev.ret
        /\ call.pre = Prev.pre
        /\ Tracker = call.pre

\* C11 (amended): only the end_of_profile call is idempotent: repeated, it returns
\* the identical outcome and leaves the session unchanged.  A returned hit or
\* miss moves the session: current_index becomes the returned next_index, so the
\* same arguments repeated are evaluated one card further (next_index, and the
\* card index of a hit, one higher; same url and saves).
C11_Repeat ==
    /\ (HasPrev /\ Prev.same /\ EvalEnd) =>
           /\ call.ret = Prev.ret
           /\ call.pre = Prev.pre
           /\ Tracker = call.pre
    /\ (IsEval /\ Returned /\ ~EvalEnd) =>
           /\ current_index = call.ret.next_index
           /\ current_index = call.pre.current_index + 1
    /\ (HasPrev /\ Prev.same /\ ~EvalEnd /\ PrevReturned) =>
           /\ call.pre.current_index = Prev.ret.next_index
           /\ Returned
           /\ call.ret.hit = Prev.ret.hit
           /\ call.ret.next_index = Prev.ret.next_index + 1
           /\ call.ret.hit =>
                  /\ call.ret.item[1].index = Prev.ret.item[1].index + 1
                  /\ call.ret.item[1].url = Prev.ret.item[1].url
                  /\ call.ret.item[1].saves = Prev.ret.item[1].saves

C11_Witness ==
    /\ HasPrev /\ Prev.same /\ EvalEnd /\ Returned
    /\ call.pre.current_index > 0
    /\ calls >= 3

\* C12: the cursor never goes back.  An outcome returned by evaluate has
\* next_index >= the session's cursor before the call, the session's cursor
\* after the call is >= the cursor before it and >= every next_index returned
\* earlier; an outcome returned by continue has next_index >= the request's
\* cursor.
C12_Monotone ==
    /\ (IsEval /\ Returned) => call.ret.next_index >= call.pre.current_index
    /\ IsEval => current_index >= call.pre.current_index
    /\ HasPrev => call.pre.current_index >= Prev.pre.current_index
    /\ (HasPrev /\ PrevReturned) => call.pre.current_index >= Prev.ret.next_index
    /\ (IsCont /\ Returned) => call.ret.next_index >= call.next_index

C12_Witness ==
    /\ HasPrev /\ PrevReturned /\ Returned
    /\ Prev.ret.hit
    /\ call.ret.error = Some("end_of_profile")
    /\ call.ret.next_index = Prev.ret.next_index
    /\ calls = 4 /\ misses = 2

\* C13 (as claimed): a miss carries the policy-stop error exactly when the number
\* of misses since the last card whose saves reached the threshold (or since the
\* session start) has reached max_fails, and no other outcome carries it.
C13_FailureRestart ==
    /\ (EvalMiss /\ Returned) =>
           (call.ret.error = PolicyStop <=> sinceHit >= max_fails)
    /\ (IsEval /\ Returned /\ ~EvalMiss) => call.ret.error # PolicyStop

\* C14 (as claimed): after end_of_profile was returned at cursor c, a call for a
\* card with saves >= threshold returns a hit with card index c, next_index c + 1
\* and no error: the outcome and the session are what they would be had the
\* end_of_profile call not been made.
C14_RetryAfterEnd ==
    (HasPrev /\ Prev.end /\ PrevReturned /\ EvalHit) =>
        /\ Returned
        /\ call.ret.hit
        /\ call.ret.error = None
        /\ call.ret.item # None
        /\ call.ret.item[1].index = Prev.pre.current_index
        /\ call.ret.next_index = Prev.pre.current_index + 1
        /\ call.ret = evaluate(Prev.pre, call.saves, call.url).ret
        /\ Tracker = evaluate(Prev.pre, call.saves, call.url).self

\* C15 (as claimed): after an outcome that carries the policy-stop error the next
\* call is evaluated by the normal rules: it returns an outcome; a card with
\* saves >= threshold gives a hit without error and consecutive_fails = 0, a
\* card below the threshold a miss, an absent card end_of_profile.
C15_SoftStop ==
    (HasPrev /\ PrevReturned /\ Prev.ret.error = PolicyStop) =>
        /\ call.pre.current_index = Prev.ret.next_index
        /\ Returned
        /\ EvalHit => (call.ret.hit /\ call.ret.error = None /\ consecutive_fails = 0)
        /\ EvalMiss => (~call.ret.hit /\ call.ret.next_index = call.pre.current_index + 1)
        /\ EvalEnd => (~call.ret.hit /\ call.ret.error = Some("end_of_profile"))

---------------------------------------------------------------------------
(* Claims about rejected calls and about continue against evaluate *)

\* C16 (as claimed): an evaluate call on a session whose cursor is negative or
\* whose max_fails is not positive is rejected: it returns no outcome and leaves
\* current_index and consecutive_fails unchanged.
C16_FailFast ==
    (IsEval /\ (call.pre.current_index < 0 \/ call.pre.max_fails <= 0)) =>
        /\ ~Returned
        /\ Tracker = call.pre

\* C17 (as claimed): a continue request with a negative cursor fails: it returns
\* no outcome, and no card is fetched and evaluated for it.
C17_InvalidCursor ==
    (IsCont /\ call.next_index < 0) => ~Returned

\* the values MAX_FAILS can be configured to (core/constants.py reads it from
\* the environment), the default among them
ConfiguredMaxFails == (1..MaxFails) \cup {MAX_FAILS}
FetchedCard == call.media[call.next_index + 1]

\* C18 (as claimed): when continue evaluates the card at the request's cursor,
\* its outcome is the outcome evaluate returns for a session built from the
\* request (its cursor, the configured max_fails) and the card's saves and url.
C18_Delegates ==
    (Fetched /\ call.next_index >= 0 /\ CardAtCursor) =>
        \A mf \in ConfiguredMaxFails :
            call.ret = evaluate(services_init(call.next_index, mf),
                                Some(FetchedCard.saves), Some(FetchedCard.url)).ret

---------------------------------------------------------------------------
(* api/routes.py over the shared browser: continue requests run by the     *)
(* server's worker threads against app.state.driver_savee                   *)

\* The browser is created once at startup and every request gets the same
\* object (api/dependencies.py); the page it has open stays open between
\* requests, with the cards it has loaded so far.  The profile has the cards
\* `profile` at the provider; the page shows the first `dom` of them: PageSize
\* when it is opened, PageSize more after each scroll to the bottom.

max_scrolls == 5

min2(a, b) == IF a < b THEN a ELSE b

\* the page when the profile has just been opened
opened(total) == min2(PageSize, total)

\* the page after window.scrollTo(0, document.body.scrollHeight) and the wait
scrolled(count, total) == min2(count + PageSize, total)

\* the `while True` loop of parse_savee_profile run without interruption, from a
\* page showing `count` cards of `total`: the number of cards in DOM at its end
RECURSIVE scroll_loop(_, _, _, _)
scroll_loop(count, start_index, scrolls_done, total) ==
    IF count > start_index \/ scrolls_done >= max_scrolls
    THEN count
    ELSE scroll_loop(scrolled(count, total), start_index, scrolls_done + 1, total)

\* the cards collected from a page showing `count` cards
media_urls(count) == SubSeq(profile, 1, count)

\* parse_savee_continue run by itself against a page showing `count` cards
alone(next_index, count) ==
    continue_parse(models_init(Some(WebDriver), next_index),
                   media_urls(scroll_loop(count, max0(next_index), 0, Len(profile))),
                   "none").ret

Feeds == UNION {[1..n -> Cards] : n \in 0..MaxFeed}
UniformFeeds == {f \in Feeds : \A i \in DOMAIN f : f[i] = f[1] /\ f[i].url = HttpsUrl}
BrowserCursors == 0..MaxFeed

Busy(w) == inflight[w].pc \in {"count", "scroll", "collect"}
Done(w) == inflight[w].pc = "done"

InitBrowser ==
    /\ phase = "browser"
    /\ current_index = 0
    /\ consecutive_fails = 0
    /\ max_fails = 0
    /\ calls = 0
    /\ missRun = 0
    /\ misses = 0
    /\ sinceHit = 0
    /\ profile \in UniformFeeds
    /\ cursor = 0
    /\ call = NoCall
    /\ dom = opened(Len(profile))
    /\ inflight = [w \in Workers |-> Idle]
    /\ app = Boot
    /\ loop = NoLoop

\* POST /parse-savee-continue {next_index}: the first free worker thread takes
\* the request; by_itself is what the request returns when nothing else touches
\* the browser while it is served, overlapped whether another request was being
\* served at any time while this one was
Receive(w, next_index) ==
    /\ phase = "browser"
    /\ ~Busy(w)
    /\ \A u \in Workers : u < w => Busy(u)
    /\ inflight' = [v \in Workers |->
          IF v = w
          THEN [pc |-> "count", next_index |-> next_index, scrolls_done |-> 0,
                by_itself |-> alone(next_index, dom),
                overlapped |-> \E u \in Workers \ {w} : Busy(u)]
          ELSE IF Busy(v) THEN [inflight[v] EXCEPT !.overlapped = TRUE]
          ELSE inflight[v]]
    /\ UNCHANGED <<auxVars, phase, engineVars, coordVars, call, dom>>

\* one pass of the loop head: count the cards in DOM, leave the loop or go on
\* to scroll
Count(w) ==
    /\ inflight[w].pc = "count"
    /\ LET r == inflight[w]
           start_index == max0(r.next_index)
       IN  inflight' = [inflight EXCEPT ![w] =
               IF dom > start_index \/ r.scrolls_done >= max_scrolls
               THEN [r EXCEPT !.pc = "collect"]
               ELSE [r EXCEPT !.pc = "scroll", !.scrolls_done = @ + 1]]
    /\ UNCHANGED <<auxVars, phase, engineVars, coordVars, call, dom>>

\* driver.execute_script(scrollTo ...) and the sleep: the page loads more cards
Scroll(w) ==
    /\ inflight[w].pc = "scroll"
    /\ dom' = scrolled(dom, Len(profile))
    /\ inflight' = [inflight EXCEPT ![w].pc = "count"]
    /\ UNCHANGED <<auxVars, phase, engineVars, coordVars, call>>

\* the elements are collected and the card at the cursor is picked and judged:
\* continue_parse returns
Collect(w) ==
    /\ inflight[w].pc = "collect"
    /\ LET r == inflight[w]
           self == models_init(Some(WebDriver), r.next_index)
       IN  inflight' = [inflight EXCEPT ![w] =
               [pc |-> "done", next_index |-> r.next_index, by_itself |-> r.by_itself,
                overlapped |-> r.overlapped,
                ret |-> continue_parse(self, media_urls(dom), "none").ret]]
    /\ UNCHANGED <<auxVars, phase, engineVars, coordVars, call, dom>>

NextBrowser ==
    \/ \E w \in Workers, next_index \in BrowserCursors : Receive(w, next_index)
    \/ \E w \in Workers : Count(w)
    \/ \E w \in Workers : Scroll(w)
    \/ \E w \in Workers : Collect(w)

SpecBrowser == InitBrowser /\ [][NextBrowser]_vars

---------------------------------------------------------------------------
(* Claims about requests sharing the browser *)

\* C19 (as claimed): a continue request served with no other request in flight
\* returns what the same request returns against the same profile right after
\* the page was opened, whatever requests were served before it.
C19_NoMemory ==
    \A w \in Workers :
        (Done(w) /\ ~inflight[w].overlapped) =>
            inflight[w].ret = alone(inflight[w].next_index, opened(Len(profile)))

\* C20 (as claimed): a continue request that was in flight together with another
\* one returns what it returns when served by itself from the same page.
C20_NoInterference ==
    \A w \in Workers :
        (Done(w) /\ inflight[w].overlapped) =>
            inflight[w].ret = inflight[w].by_itself

---------------------------------------------------------------------------
(* Claims about what an outcome carries *)

\* the card given to evaluate is one MediaItem accepts at a valid index
CardAccepted(saves, url) ==
    \/ saves = None
    \/ saves[1] < LIKES_THRESHOLD
    \/ url # None /\ url_must_be_http(url[1])

\* C21: every outcome returned by evaluate or by continue has next_index >= 0,
\* and the next call at that cursor is accepted: evaluate at the session's
\* cursor returns for an absent card, for a miss and for every card MediaItem
\* accepts, and continue at the returned next_index returns whatever the driver
\* and the browser do.
C21_Resubmit ==
    /\ ((IsEval \/ IsCont) /\ Returned) => call.ret.next_index >= 0
    /\ (IsEval /\ Returned) =>
           /\ current_index = call.ret.next_index
           /\ \A saves \in SavesArgs, url \in UrlArgs :
                  CardAccepted(saves, url) =>
                      evaluate(Tracker, saves, url).ret # ValidationError
    /\ (IsCont /\ Returned) =>
           \A driver \in Drivers, fault \in Faults :
               continue_parse(models_init(driver, call.ret.next_index),
                              call.media, fault).ret # ValidationError

C21_Witness ==
    /\ IsEval /\ Returned
    /\ call.pre.current_index = -1
    /\ call.ret.error = PolicyStop
    /\ call.ret.next_index = 0

\* C22: every card in an outcome returned by evaluate or by continue has
\* index >= 0, saves >= 0 and a url that begins with http:// or https://.
C22_CardValid ==
    ((IsEval \/ IsCont) /\ Returned /\ call.ret.item # None) =>
        LET item == call.ret.item[1]
        IN  /\ item.index >= 0
            /\ item.saves >= 0
            /\ item.url # EmptyStr
            /\ startswith(item.url, HTTP_PREFIX) \/ startswith(item.url, HTTPS_PREFIX)

C22_Witness ==
    /\ IsEval /\ Returned
    /\ call.ret.item # None
    /\ call.ret.item[1].url = HttpUrl
    /\ call.ret.item[1].index = MaxStart

---------------------------------------------------------------------------
(* Claims about the endpoints *)

\* C23 (as claimed): when the card of a continue request handled by an endpoint
\* is a hit, the endpoint answers 200 with a body that carries hit = true, the
\* next_index and the card's url and saves.
C23_HitReachesCaller ==
    (IsCont /\ call.driver # None /\ Returned /\ call.ret.hit) =>
        /\ call.response.status_code = 200
        /\ call.response.content.hit
        /\ call.response.content.next_index = call.ret.next_index
        /\ call.response.content.item[1].url = call.ret.item[1].url
        /\ call.response.content.item[1].saves = call.ret.item[1].saves

IsAuth == call.op = "auth"
LoginSucceeded == call.result # WebDriverException /\ call.result.status = "success"

\* C24 (as claimed): the login endpoint answers {"status": "success"} only when
\* perform_savee_login reported a successful login, and answers HTTP 500
\* whenever the login reported a failure.
C24_AuthReportsFailure ==
    IsAuth =>
        /\ (call.response.status_code = 200) => LoginSucceeded
        /\ (~LoginSucceeded) => call.response = HTTPException(500)

---------------------------------------------------------------------------
(* Claims about dispatch and about failed calls *)

\* the parser the tracker's driver selects, run for the request
ParserResult ==
    IF cosmos_in_driver_type(call.driver[1])
    THEN parse_cosmos_profile(call.media, call.next_index, call.fault)
    ELSE parse_savee_profile(call.media, call.next_index, call.fault)

\* C25 (as claimed): with the Cosmos driver that startup installs continue_parse
\* runs parse_cosmos_profile for the requested index, with any other driver
\* parse_savee_profile, and the outcome's hit is (saves >= LIKES_THRESHOLD) for
\* the saves count the parser returns.
C25_Dispatch ==
    (IsCont /\ call.driver # None /\ call.fault = "none"
        /\ call.next_index >= 0 /\ CardAtCursor) =>
        /\ Returned
        /\ call.ret.hit = (ParserResult.saves >= LIKES_THRESHOLD)
        /\ call.ret.next_index = ParserResult.next_index

\* C26 (as claimed): when evaluate raises instead of returning an outcome, the
\* tracker's current_index and consecutive_fails are what they were before the
\* call.
C26_FailedCallChangesNothing ==
    (IsEval /\ ~Returned) =>
        /\ current_index = call.pre.current_index
        /\ consecutive_fails = call.pre.consecutive_fails

---------------------------------------------------------------------------
(* Claims about startup and shutdown *)

StartupAborted == app.pc = "aborted"
SaveeInitFailed == StartupAborted /\ app.driver_savee = None
CosmosInitFailed == StartupAborted /\ app.driver_savee # None
ShutDown == app.pc = "stopped"
Called(name) == \E i \in 1..Len(app.log) : app.log[i] = name

\* C27: startup leaves no orphaned driver: when initialising the Savee driver
\* fails, startup aborts and init_cosmos_driver is never called; when
\* initialising the Cosmos driver fails, quit is called on the installed Savee
\* driver, after the failed initialisation and before startup aborts.
C27_StartupCleanup ==
    /\ SaveeInitFailed => ~Called("init_cosmos_driver") /\ app.driver_cosmos = None
    /\ CosmosInitFailed =>
           /\ app.driver_cosmos = None
           /\ app.log = <<"init_driver", "init_cosmos_driver", "driver_savee.quit">>

\* the Cosmos driver failed to start and the Savee browser was closed for it
C27_Witness ==
    ~(CosmosInitFailed /\ Called("driver_savee.quit") /\ app.chrome_savee = "closed")

\* C28: shutdown closes every driver: once shutdown has run, quit has been
\* called on each driver that startup installed, whether or not closing the
\* Savee driver raised.
C28_ShutdownQuitsEach ==
    ShutDown =>
        /\ app.driver_savee # None => Called("driver_savee.quit")
        /\ app.driver_cosmos # None => Called("driver_cosmos.quit")

---------------------------------------------------------------------------
(* The card-loading loops of the two parsers, on a page that answers a scroll
   in any of three ways *)

MaxScrollStart == 6  \* the loops run for start_index in -1..MaxScrollStart
MaxShown == 2        \* cards on the page when the loop starts: 0..MaxShown
MaxGrowth == 2       \* cards one scroll may add: 1..MaxGrowth
ScrollCap == 7       \* execute_script calls after which the model stops following a loop

Platforms == {"savee", "cosmos"}
PageBehaviours == {"new cards", "no new cards", "raises"}
ScrollStarts == -1..MaxScrollStart

\* parse_savee_profile: the two breaks at the head of `while True`
savee_loop_exits_unlimited(current_count, start_index, scrolls_done) ==
    current_count > start_index

savee_loop_exits(current_count, start_index, scrolls_done) ==
    current_count > start_index \/ scrolls_done >= max_scrolls

\* parse_cosmos_profile: the condition of its while loop
cosmos_loop_continues(image_count, start_index, scrolls_done) ==
    image_count <= start_index /\ scrolls_done < max_scrolls

\* the page after a scroll that did not raise
after_scroll(count, behaviour, growth) ==
    IF behaviour = "new cards" THEN count + growth ELSE count

InitScroll ==
    /\ phase = "scroll"
    /\ current_index = 0
    /\ consecutive_fails = 0
    /\ max_fails = 0
    /\ calls = 0
    /\ missRun = 0
    /\ misses = 0
    /\ sinceHit = 0
    /\ profile = <<>>
    /\ cursor = 0
    /\ call = NoCall
    /\ dom = 0
    /\ inflight = [w \in Workers |-> Idle]
    /\ app = Boot
    /\ loop = NoLoop

\* a parser reaches its loop: scrolls_done = 0, the page shows `count` cards;
\* scrolls counts the execute_script calls of this run of the loop, iterations
\* the times the loop's exit test was made
EnterLoop(platform, start_index, count) ==
    /\ phase = "scroll"
    /\ loop.pc \in {"none", "done"}
    /\ loop' = [pc |-> "loop", platform |-> platform, start_index |-> start_index,
                count |-> count, scrolls_done |-> 0, scrolls |-> 0, iterations |-> 0,
                last |-> "none"]
    /\ UNCHANGED <<phase, engineVars, coordVars, browserVars, call, app>>

\* one pass of parse_savee_profile's loop: recount, the two breaks, then
\* scrolls_done += 1 and the scroll; the count is read again on the next pass
SaveeIteration(behaviour, growth) ==
    /\ loop.pc = "loop"
    /\ loop.platform = "savee"
    /\ loop.scrolls < ScrollCap
    /\ loop' =
         IF savee_loop_exits(loop.count, loop.start_index, loop.scrolls_done)
         THEN [loop EXCEPT !.pc = "done", !.iterations = @ + 1, !.last = "exit test"]
         ELSE IF behaviour = "raises"
         THEN [loop EXCEPT !.pc = "done", !.iterations = @ + 1, !.last = behaviour,
                           !.scrolls_done = @ + 1, !.scrolls = @ + 1]
         ELSE [loop EXCEPT !.iterations = @ + 1, !.last = behaviour,
                           !.scrolls_done = @ + 1, !.scrolls = @ + 1,
                           !.count = after_scroll(@, behaviour, growth)]
    /\ UNCHANGED <<phase, engineVars, coordVars, browserVars, call, app>>

\* one pass of parse_cosmos_profile's loop: the while test, the scroll, the
\* recount; scrolls_done += 1 only when the page grew
CosmosIteration(behaviour, growth) ==
    /\ loop.pc = "loop"
    /\ loop.platform = "cosmos"
    /\ loop.scrolls < ScrollCap
    /\ loop' =
         IF ~cosmos_loop_continues(loop.count, loop.start_index, loop.scrolls_done)
         THEN [loop EXCEPT !.pc = "done", !.iterations = @ + 1, !.last = "exit test"]
         ELSE IF behaviour = "raises"
         THEN [loop EXCEPT !.pc = "done", !.iterations = @ + 1, !.last = behaviour,
                           !.scrolls = @ + 1]
         ELSE IF after_scroll(loop.count, behaviour, growth) > loop.count
         THEN [loop EXCEPT !.iterations = @ + 1, !.last = behaviour,
                           !.scrolls_done = @ + 1, !.scrolls = @ + 1,
                           !.count = after_scroll(@, behaviour, growth)]
         ELSE [loop EXCEPT !.pc = "done", !.iterations = @ + 1, !.last = behaviour,
                           !.scrolls = @ + 1]
    /\ UNCHANGED <<phase, engineVars, coordVars, browserVars, call, app>>

NextScroll ==
    \/ \E platform \in Platforms, start_index \in ScrollStarts, count \in 0..MaxShown :
           EnterLoop(platform, start_index, count)
    \/ \E behaviour \in PageBehaviours, growth \in 1..MaxGrowth :
           SaveeIteration(behaviour, growth)
    \/ \E behaviour \in PageBehaviours, growth \in 1..MaxGrowth :
           CosmosIteration(behaviour, growth)

SpecScroll == InitScroll /\ [][NextScroll]_vars

---------------------------------------------------------------------------
(* Claims about the card-loading loops *)

InLoop == loop.pc \in {"loop", "done"}
LoopEnded == loop.pc = "done"

\* C29: the scroll loops terminate: whatever the start index and however the
\* page answers each scroll (new cards, no new cards, the scroll raises), a run
\* of the card-loading loop of either parser makes at most max_scrolls = 5
\* scrolls and at most max_scrolls + 1 exit tests, and a run that is still
\* looping has made fewer than that many tests.
C29_BoundedScrolls ==
    InLoop =>
        /\ loop.scrolls <= max_scrolls
        /\ loop.iterations <= max_scrolls + 1
        /\ loop.scrolls_done <= max_scrolls
        /\ (loop.iterations = max_scrolls + 1 => LoopEnded)

\* a loop that the limit ended: five scrolls made, the card still not on the page
C29_Witness ==
    ~(LoopEnded /\ loop.scrolls = max_scrolls /\ loop.count <= loop.start_index
        /\ loop.last = "exit test")

====
